---- MODULE Spec2Model ----
(***************************************************************************)
(* Model of src/dashboard.py: the notebook output extraction routine       *)
(* process_notebook_content and the two page functions that call it.       *)
(*                                                                         *)
(* A notebook is the NotebookNode that nbformat.reads returns: a record    *)
(* with a "cells" sequence.  Cells and outputs are records whose optional  *)
(* fields ("outputs", "data", the MIME keys of "data") may be absent, so   *)
(* that Python's  "data" in output  is  "data" \in DOMAIN output.          *)
(***************************************************************************)
EXTENDS Naturals, Sequences, FiniteSets, TLC

VARIABLES
    fs,                \* the file system: path -> file
    runs,              \* script runs (page views) started so far
    budget,            \* script runs this session may start
    pc,                \* position of the running call of process_notebook_content
    notebook_path,     \* its argument
    notebook_content,  \* the text f.read() returned (line 11)
    notebook,          \* the parsed notebook (line 13)
    ci,                \* index of the cell the outer loop is at (line 15)
    oi,                \* index of the output the inner loop is at (line 17)
    outputs,           \* the accumulator (line 8)
    error,             \* the exception the call raised, "" if none
    result,            \* what the caller received: None or Some(sequence)
    log                \* the calls that returned so far: path and sequence returned

vars == <<fs, runs, budget, pc, notebook_path, notebook_content, notebook,
          ci, oi, outputs, error, result, log>>

----------------------------------------------------------------------------
(* Bounds of the model.                                                    *)

MaxSize == 4           \* cells plus outputs of a notebook (Spec)
PagesMaxSize == 2      \* cells plus outputs of the two notebooks together (SpecPages)
MaxRuns == 3           \* page views of a session (SpecPages)

----------------------------------------------------------------------------
(* Values.                                                                 *)

None == <<>>
Some(v) == <<v>>

AnalysisPath == "notebooks/05_data_analysis.ipynb"
VisualisationPath == "notebooks/06_data_visualisation.ipynb"
Paths == {AnalysisPath, VisualisationPath}
Pages == {"Data Analysis", "Data Visualisation"}

MimeKeys == {"text/html", "image/png", "text/plain"}

\* The payload a data mapping holds under each MIME key.
Payload(k) ==
    CASE k = "text/html" -> "<table><tr><td>1</td></tr></table>"
      [] k = "image/png" -> "QUJD"
      [] k = "text/plain" -> "42"

Data(K) == [k \in K |-> Payload(k)]

WithData(t, K) == [output_type |-> t, data |-> Data(K)]
NoData(t) == [output_type |-> t]

\* The outputs notebooks are built from: for the two output types the code
\* looks at, with and without a data mapping and with and without the MIME
\* keys the type looks for; for the types it ignores, bare and with every key.
Outputs ==
    {NoData("display_data"),
     WithData("display_data", {}),
     WithData("display_data", {"text/html"}),
     WithData("display_data", {"image/png"}),
     WithData("display_data", {"text/html", "image/png"}),
     WithData("display_data", {"text/plain"}),
     WithData("display_data", MimeKeys),
     NoData("execute_result"),
     WithData("execute_result", {"text/plain"}),
     WithData("execute_result", {"text/html", "image/png"}),
     WithData("execute_result", MimeKeys),
     NoData("stream"),
     WithData("stream", MimeKeys),
     WithData("error", MimeKeys)}

CellTypes == {"code", "markdown"}

\* A cell's shape code: 0 for a cell with no "outputs" field, k + 1 for a
\* cell whose "outputs" field holds k outputs.
Count(c) == IF c = 0 THEN 0 ELSE c - 1

RECURSIVE Sum(_)
Sum(counts) ==
    IF counts = <<>> THEN 0 ELSE Count(Head(counts)) + Sum(Tail(counts))

\* The cells of a notebook: cell i has type types[i] and the next Count(counts[i])
\* outputs of outs, or no "outputs" field.
RECURSIVE BuildCells(_, _, _)
BuildCells(types, counts, outs) ==
    IF types = <<>> THEN <<>>
    ELSE LET n == Count(Head(counts))
             cell == IF Head(counts) = 0
                     THEN [cell_type |-> Head(types)]
                     ELSE [cell_type |-> Head(types), outputs |-> SubSeq(outs, 1, n)]
         IN  <<cell>> \o BuildCells(Tail(types), Tail(counts),
                                     SubSeq(outs, n + 1, Len(outs)))

\* The output counts of n cells that fit a notebook of the given size.
Shapes(n, size) ==
    {c \in [1..n -> 0..(size - n + 1)] : Sum(c) <= size - n}

\* The cell sequences whose cells plus outputs number at most size.
CellSeqs(size) ==
    UNION {UNION {{BuildCells(t, c, o) :
                     t \in [1..n -> CellTypes], o \in [1..Sum(c) -> Outputs]} :
                    c \in Shapes(n, size)} :
             n \in 0..size}

RECURSIVE TotalOutputs(_)
TotalOutputs(cells) ==
    IF cells = <<>> THEN 0
    ELSE (IF "outputs" \in DOMAIN Head(cells) THEN Len(Head(cells).outputs) ELSE 0)
         + TotalOutputs(Tail(cells))

\* A file: missing (open raises), text that is no JSON, or a notebook document.
MissingFile == [readable |-> FALSE]
NotJsonFile == [readable |-> TRUE, content |-> [json |-> FALSE, text |-> "not json"]]
NotebookFile(cells) ==
    [readable |-> TRUE, content |-> [json |-> TRUE, nb |-> [cells |-> cells]]]

Files(size) == {MissingFile, NotJsonFile} \cup {NotebookFile(s) : s \in CellSeqs(size)}

\* Cells plus outputs of the notebook a file holds.
FileSize(f) ==
    IF f.readable /\ f.content.json
    THEN Len(f.content.nb.cells) + TotalOutputs(f.content.nb.cells)
    ELSE 0

\* The file systems whose two notebooks together have at most the given size.
FileSystems(size) ==
    UNION {{[p \in Paths |-> IF p = AnalysisPath THEN a ELSE v] :
              v \in Files(size - FileSize(a))} :
             a \in Files(size)}

----------------------------------------------------------------------------
(* process_notebook_content, lines 7-30.                                   *)

\* The accumulator outlives the call (a module-level list, a mutable default).
KeptOutputs(old) == old

\* line 8: outputs = []
NewOutputs(old) == <<>>

\* line 10: open(notebook_path) succeeds
CanOpen(f) == f.readable

\* line 13: nbformat.reads(notebook_content, as_version=4) succeeds
CanParse(content) == content.json

\* line 13: the notebook nbformat.reads returns
Reads(content) == content.nb

\* The check of cell_type is left out.
HasOutputsAnyType(cell) ==
    (IF "outputs" \in DOMAIN cell THEN cell.outputs ELSE <<>>) # <<>>

\* line 16: cell.cell_type == "code" and cell.get("outputs", [])
HasCodeOutputs(cell) ==
    /\ cell.cell_type = "code"
    /\ (IF "outputs" \in DOMAIN cell THEN cell.outputs ELSE <<>>) # <<>>

\* The image element without the trailing newline.
ImageHtmlNoNewline(image_data) ==
    "<img src=\"data:image/png;base64," \o image_data \o "\" />"

\* line 23: the image element built around the base64 payload
ImageHtml(image_data) ==
    "<img src=\"data:image/png;base64," \o image_data \o "\" />\n"

\* The preformatted block left unclosed.
PreHtmlUnclosed(output_text) == "<pre>" \o output_text

\* line 28: the preformatted block built around the text
PreHtml(output_text) == "<pre>" \o output_text \o "</pre>"

\* What handling one output does: it appends frags, or raises error.
Ok(frags) == [error |-> "", frags |-> frags]
Raise(e) == [error |-> e, frags |-> <<>>]

\* lines 20, 22, 27: output.data[key], which raises AttributeError on an output
\* without "data" and KeyError on a mapping without the key
DataItem(output, key) ==
    IF "data" \notin DOMAIN output THEN Raise("AttributeError")
    ELSE IF key \notin DOMAIN output.data THEN Raise("KeyError")
    ELSE Ok(<<output.data[key]>>)

\* image/png is looked for before text/html.
EmitPngFirst(output) ==
    IF output.output_type = "display_data"
    THEN IF "data" \in DOMAIN output /\ "image/png" \in DOMAIN output.data
         THEN Ok(<<ImageHtml(DataItem(output, "image/png").frags[1])>>)
         ELSE IF "data" \in DOMAIN output /\ "text/html" \in DOMAIN output.data
              THEN DataItem(output, "text/html")
              ELSE Ok(<<>>)
    ELSE IF output.output_type = "execute_result"
         THEN IF "data" \in DOMAIN output /\ "text/plain" \in DOMAIN output.data
              THEN Ok(<<PreHtml(DataItem(output, "text/plain").frags[1])>>)
              ELSE Ok(<<>>)
         ELSE Ok(<<>>)

\* The two display representations are independent ifs: both are appended.
EmitBoth(output) ==
    IF output.output_type = "display_data"
    THEN Ok((IF "data" \in DOMAIN output /\ "text/html" \in DOMAIN output.data
             THEN DataItem(output, "text/html").frags ELSE <<>>)
            \o (IF "data" \in DOMAIN output /\ "image/png" \in DOMAIN output.data
                THEN <<ImageHtml(DataItem(output, "image/png").frags[1])>> ELSE <<>>))
    ELSE IF output.output_type = "execute_result"
         THEN IF "data" \in DOMAIN output /\ "text/plain" \in DOMAIN output.data
              THEN Ok(<<PreHtml(DataItem(output, "text/plain").frags[1])>>)
              ELSE Ok(<<>>)
         ELSE Ok(<<>>)

\* The tests for "data" are left out of the conditions.
EmitUnguarded(output) ==
    IF output.output_type = "display_data"
    THEN IF "data" \notin DOMAIN output THEN Raise("AttributeError")
         ELSE IF "text/html" \in DOMAIN output.data
              THEN DataItem(output, "text/html")
              ELSE IF "image/png" \in DOMAIN output.data
                   THEN Ok(<<ImageHtml(DataItem(output, "image/png").frags[1])>>)
                   ELSE Ok(<<>>)
    ELSE IF output.output_type = "execute_result"
         THEN IF "data" \notin DOMAIN output THEN Raise("AttributeError")
              ELSE IF "text/plain" \in DOMAIN output.data
                   THEN Ok(<<PreHtml(DataItem(output, "text/plain").frags[1])>>)
                   ELSE Ok(<<>>)
         ELSE Ok(<<>>)

\* The second branch is a bare else: every other output type is handled as
\* an execute_result.
EmitOtherTypes(output) ==
    IF output.output_type = "display_data"
    THEN IF "data" \in DOMAIN output /\ "text/html" \in DOMAIN output.data
         THEN DataItem(output, "text/html")
         ELSE IF "data" \in DOMAIN output /\ "image/png" \in DOMAIN output.data
              THEN Ok(<<ImageHtml(DataItem(output, "image/png").frags[1])>>)
              ELSE Ok(<<>>)
    ELSE IF "data" \in DOMAIN output /\ "text/plain" \in DOMAIN output.data
         THEN Ok(<<PreHtml(DataItem(output, "text/plain").frags[1])>>)
         ELSE Ok(<<>>)

\* lines 18-28: what the body of the inner loop does with one output
Emit(output) ==
    IF output.output_type = "display_data"
    THEN IF "data" \in DOMAIN output /\ "text/html" \in DOMAIN output.data
         THEN DataItem(output, "text/html")
         ELSE IF "data" \in DOMAIN output /\ "image/png" \in DOMAIN output.data
              THEN LET image_data == DataItem(output, "image/png")
                   IN  IF image_data.error # "" THEN image_data
                       ELSE Ok(<<ImageHtml(image_data.frags[1])>>)
              ELSE Ok(<<>>)
    ELSE IF output.output_type = "execute_result"
         THEN IF "data" \in DOMAIN output /\ "text/plain" \in DOMAIN output.data
              THEN LET output_text == DataItem(output, "text/plain")
                   IN  IF output_text.error # "" THEN output_text
                       ELSE Ok(<<PreHtml(output_text.frags[1])>>)
              ELSE Ok(<<>>)
         ELSE Ok(<<>>)

\* The fragments are inserted at the front.
InsertAll(acc, frags) == frags \o acc

\* lines 20, 24, 28: outputs.append(...)
AppendAll(acc, frags) == acc \o frags

\* lines 34, 41: the path each page function passes
PagePath(page) ==
    IF page = "Data Analysis" THEN AnalysisPath ELSE VisualisationPath

Idle == pc \in {"idle", "returned", "raised"}

\* lines 53-63, 34, 43, 7-8: a script run selects a page, the page function
\* calls process_notebook_content, which binds a new accumulator.
Call(page) ==
    /\ Idle
    /\ runs < budget
    /\ runs' = runs + 1
    /\ notebook_path' = PagePath(page)
    /\ outputs' = NewOutputs(outputs)
    /\ notebook_content' = None
    /\ notebook' = None
    /\ ci' = 0
    /\ oi' = 0
    /\ error' = ""
    /\ result' = None
    /\ pc' = "open"
    /\ UNCHANGED <<fs, budget, log>>

\* lines 10-11: open the file and read it whole, or raise
OpenRead ==
    /\ pc = "open"
    /\ IF CanOpen(fs[notebook_path])
       THEN /\ notebook_content' = Some(fs[notebook_path].content)
            /\ pc' = "parse"
            /\ error' = error
       ELSE /\ notebook_content' = notebook_content
            /\ pc' = "raised"
            /\ error' = "IOError"
    /\ UNCHANGED <<fs, runs, budget, notebook_path, notebook, ci, oi, outputs,
                   result, log>>

\* A parse failure is caught and the accumulator returned.
ParseLenient ==
    /\ pc = "parse"
    /\ IF CanParse(notebook_content[1])
       THEN /\ notebook' = Some(Reads(notebook_content[1]))
            /\ ci' = 1
            /\ pc' = "cells"
            /\ result' = result
       ELSE /\ notebook' = notebook
            /\ ci' = ci
            /\ pc' = "returned"
            /\ result' = Some(outputs)
    /\ UNCHANGED <<fs, runs, budget, notebook_path, notebook_content, oi, outputs,
                   error, log>>

\* line 13: parse the text, or raise
Parse ==
    /\ pc = "parse"
    /\ IF CanParse(notebook_content[1])
       THEN /\ notebook' = Some(Reads(notebook_content[1]))
            /\ ci' = 1
            /\ pc' = "cells"
            /\ error' = error
       ELSE /\ notebook' = notebook
            /\ ci' = ci
            /\ pc' = "raised"
            /\ error' = "ParseError"
    /\ UNCHANGED <<fs, runs, budget, notebook_path, notebook_content, oi, outputs,
                   result, log>>

\* lines 15-16: the outer loop takes the next cell, enters it or skips it
NextCell ==
    /\ pc = "cells"
    /\ ci <= Len(notebook[1].cells)
    /\ IF HasCodeOutputs(notebook[1].cells[ci])
       THEN /\ oi' = 1
            /\ ci' = ci
            /\ pc' = "outputs"
       ELSE /\ oi' = oi
            /\ ci' = ci + 1
            /\ pc' = pc
    /\ UNCHANGED <<fs, runs, budget, notebook_path, notebook_content, notebook,
                   outputs, error, result, log>>

\* lines 17-28: the inner loop handles one output of the cell
NextOutput ==
    /\ pc = "outputs"
    /\ LET done == Emit(notebook[1].cells[ci].outputs[oi])
       IN  IF done.error # ""
           THEN /\ error' = done.error
                /\ pc' = "raised"
                /\ UNCHANGED <<ci, oi, outputs>>
           ELSE /\ outputs' = AppendAll(outputs, done.frags)
                /\ error' = error
                /\ IF oi < Len(notebook[1].cells[ci].outputs)
                   THEN /\ oi' = oi + 1
                        /\ ci' = ci
                        /\ pc' = pc
                   ELSE /\ oi' = 0
                        /\ ci' = ci + 1
                        /\ pc' = "cells"
    /\ UNCHANGED <<fs, runs, budget, notebook_path, notebook_content, notebook,
                   result, log>>

\* line 30: return outputs
Return ==
    /\ pc = "cells"
    /\ ci > Len(notebook[1].cells)
    /\ result' = Some(outputs)
    /\ log' = Append(log, [path |-> notebook_path, result |-> outputs])
    /\ pc' = "returned"
    /\ UNCHANGED <<fs, runs, budget, notebook_path, notebook_content, notebook,
                   ci, oi, outputs, error>>

Next ==
    \/ \E page \in Pages : Call(page)
    \/ OpenRead
    \/ Parse
    \/ NextCell
    \/ NextOutput
    \/ Return

InitCall ==
    /\ runs = 0
    /\ pc = "idle"
    /\ notebook_path = ""
    /\ notebook_content = None
    /\ notebook = None
    /\ ci = 0
    /\ oi = 0
    /\ outputs = <<>>
    /\ error = ""
    /\ result = None
    /\ log = <<>>

\* The file system of one script run: the analysis notebook is the given file,
\* the visualisation notebook is missing.
OneNotebook(a) == [p \in Paths |-> IF p = AnalysisPath THEN a ELSE MissingFile]

\* One script run over any file of Files(MaxSize), the notebooks drawn cell
\* shape by cell shape as CellSeqs(MaxSize) builds them.
Init ==
    /\ \/ \E a \in {MissingFile, NotJsonFile} : fs = OneNotebook(a)
       \/ \E n \in 0..MaxSize : \E c \in Shapes(n, MaxSize) :
            \E t \in [1..n -> CellTypes] : \E o \in [1..Sum(c) -> Outputs] :
               fs = OneNotebook(NotebookFile(BuildCells(t, c, o)))
    /\ budget = 1
    /\ InitCall

Spec == Init /\ [][Next]_vars

\* A session of page views over two notebooks.
InitPages ==
    /\ fs \in FileSystems(PagesMaxSize)
    /\ budget = MaxRuns
    /\ InitCall

SpecPages == InitPages /\ [][Next]_vars

----------------------------------------------------------------------------
(* The properties.                                                         *)

Nb == notebook[1]
CurCell == Nb.cells[ci]
CurOutput == CurCell.outputs[oi]

HasKey(output, key) == "data" \in DOMAIN output /\ key \in DOMAIN output.data

CodeCell(outs) == [cell_type |-> "code", outputs |-> outs]

IsPrefix(s, t) == Len(s) <= Len(t) /\ SubSeq(t, 1, Len(s)) = s

\* C1: a display_data output of a code cell whose data holds both text/html
\* and image/png appends exactly one fragment, the text/html value as it is.
C1_HtmlPrecedence ==
    [][(pc = "outputs" /\ CurOutput.output_type = "display_data"
          /\ HasKey(CurOutput, "text/html") /\ HasKey(CurOutput, "image/png"))
       => (outputs' = Append(outputs, CurOutput.data["text/html"])
           /\ pc' # "raised")]_vars

C1_Witness ==
    /\ pc = "returned"
    /\ \E i \in DOMAIN Nb.cells :
          Nb.cells[i] = CodeCell(<<WithData("display_data", {"text/html", "image/png"}),
                                   WithData("display_data", MimeKeys)>>)
    /\ result = Some(<<Payload("text/html"), Payload("text/html")>>)

\* What a sequence of outputs, and a sequence of cells, contributes in order.
RECURSIVE OutputsFragments(_)
OutputsFragments(outs) ==
    IF outs = <<>> THEN <<>>
    ELSE Emit(Head(outs)).frags \o OutputsFragments(Tail(outs))

RECURSIVE CellsFragments(_)
CellsFragments(cells) ==
    IF cells = <<>> THEN <<>>
    ELSE (IF HasCodeOutputs(Head(cells)) THEN OutputsFragments(Head(cells).outputs)
          ELSE <<>>)
         \o CellsFragments(Tail(cells))

\* C2: the accumulator is at every step the concatenation, in cell order and
\* within a cell in output order, of what each output visited so far
\* contributes, and the sequence returned is that concatenation over the
\* whole document.
C2_DocumentOrder ==
    /\ pc = "cells" => outputs = CellsFragments(SubSeq(Nb.cells, 1, ci - 1))
    /\ pc = "outputs" =>
          outputs = CellsFragments(SubSeq(Nb.cells, 1, ci - 1))
                    \o OutputsFragments(SubSeq(CurCell.outputs, 1, oi - 1))
    /\ pc = "returned" => result = Some(CellsFragments(Nb.cells))

C2_Witness ==
    /\ pc = "returned"
    /\ Len(Nb.cells) >= 2
    /\ Len(result[1]) >= 2
    /\ result[1][1] # result[1][2]

\* C3: the caller receives a sequence only from a call that opened the file,
\* parsed it and ran the iteration to its end; a call on an unreadable path
\* ends in IOError, a call on text that is no JSON ends in ParseError, and a
\* call that ended in an error hands the caller nothing.
C3_AllOrNothing ==
    /\ result # None =>
          /\ pc = "returned"
          /\ error = ""
          /\ CanOpen(fs[notebook_path])
          /\ CanParse(fs[notebook_path].content)
          /\ ci = Len(Nb.cells) + 1
          /\ result = Some(outputs)
    /\ pc = "raised" => result = None /\ error # ""
    /\ (pc \notin {"idle", "open"} /\ ~CanOpen(fs[notebook_path]))
          => (pc = "raised" /\ error = "IOError")
    /\ (pc \notin {"idle", "open", "parse"} /\ CanOpen(fs[notebook_path])
          /\ ~CanParse(fs[notebook_path].content))
          => (pc = "raised" /\ error = "ParseError")

C3_Witness ==
    /\ pc = "raised"
    /\ error = "ParseError"
    /\ notebook_content = Some([json |-> FALSE, text |-> "not json"])
    /\ result = None

\* An output of a type the code looks at that lacks what the type looks for.
LookedFor(output_type) ==
    IF output_type = "display_data" THEN {"text/html", "image/png"}
    ELSE IF output_type = "execute_result" THEN {"text/plain"}
    ELSE {}

MissingField(output) ==
    /\ output.output_type \in {"display_data", "execute_result"}
    /\ \/ "data" \notin DOMAIN output
       \/ LookedFor(output.output_type) \cap DOMAIN output.data = {}

C4_Step ==
    pc \in {"cells", "outputs"} =>
         /\ pc' # "raised"
         /\ error' = ""
         /\ (pc = "cells" /\ ci <= Len(Nb.cells) /\ CurCell.cell_type = "code"
               /\ ("outputs" \notin DOMAIN CurCell \/ CurCell.outputs = <<>>))
            => (outputs' = outputs /\ pc' = "cells" /\ ci' = ci + 1)
         /\ (pc = "outputs" /\ MissingField(CurOutput))
            => /\ outputs' = outputs
               /\ IF oi < Len(CurCell.outputs)
                  THEN pc' = "outputs" /\ ci' = ci /\ oi' = oi + 1
                  ELSE pc' = "cells" /\ ci' = ci + 1

\* C4: in a parsed document nothing raises; a code cell whose outputs are
\* absent or empty is passed over, and an output of type display_data or
\* execute_result with no data mapping, or whose data lacks the keys its
\* type looks for, appends nothing, the iteration going on to what follows.
C4_MissingFieldsSkipped == [][C4_Step]_vars

C4_Witness ==
    /\ pc = "returned"
    /\ Nb.cells = <<[cell_type |-> "code"],
                    CodeCell(<<NoData("display_data"),
                               WithData("execute_result", {"text/html", "image/png"})>>)>>
    /\ result = Some(<<>>)

\* C5: an output whose type is neither display_data nor execute_result
\* appends nothing and raises nothing, whatever its data mapping holds.
C5_OtherTypesIgnored ==
    [][(pc = "outputs"
          /\ CurOutput.output_type \notin {"display_data", "execute_result"})
       => (outputs' = outputs /\ pc' # "raised" /\ error' = "")]_vars

C5_Witness ==
    /\ pc = "returned"
    /\ Nb.cells = <<CodeCell(<<WithData("stream", MimeKeys), WithData("error", MimeKeys)>>)>>
    /\ result = Some(<<>>)

\* C6: a cell whose type is not code is passed over whole, whatever its
\* outputs field holds: the inner loop is not entered and nothing is appended.
C6_NonCodeCellsSkipped ==
    [][(pc = "cells" /\ ci <= Len(Nb.cells) /\ CurCell.cell_type # "code")
       => (outputs' = outputs /\ pc' = "cells" /\ ci' = ci + 1)]_vars

C6_Witness ==
    /\ pc = "returned"
    /\ Nb.cells = <<[cell_type |-> "markdown",
                     outputs |-> <<WithData("display_data", {"text/html"}),
                                   WithData("execute_result", {"text/plain"})>>]>>
    /\ result = Some(<<>>)

\* A step from an execute_result output.
C7_Step ==
    (pc = "outputs" /\ CurOutput.output_type = "execute_result")
       => IF HasKey(CurOutput, "text/plain")
          THEN /\ outputs' =
                    Append(outputs, "<pre>" \o CurOutput.data["text/plain"] \o "</pre>")
               /\ CurOutput.data["text/plain"] = "42"
                    => outputs'[Len(outputs')] = "<pre>42</pre>"
          ELSE outputs' = outputs

\* C7: an execute_result output appends exactly "<pre>" + text + "</pre>"
\* when its data holds text/plain = text ("42" gives "<pre>42</pre>") and
\* appends nothing when text/plain is absent, whatever else the data holds.
C7_ExecuteResult == [][C7_Step]_vars

C7_Witness ==
    /\ pc = "returned"
    /\ Nb.cells = <<CodeCell(<<WithData("execute_result", {"text/plain"}),
                               WithData("execute_result", {"text/html", "image/png"})>>)>>
    /\ result = Some(<<"<pre>42</pre>">>)

\* The image scenario, and the steps the image claim is about.
C8_Scenario == <<CodeCell(<<WithData("display_data", {"image/png"})>>)>>

C8_Step ==
    /\ (pc = "outputs" /\ CurOutput.output_type = "display_data"
          /\ HasKey(CurOutput, "image/png") /\ ~HasKey(CurOutput, "text/html"))
       => (outputs' =
             Append(outputs, "<img src=\"data:image/png;base64,"
                             \o CurOutput.data["image/png"] \o "\" />\n"))
    /\ (pc = "cells" /\ pc' = "returned" /\ Nb.cells = C8_Scenario)
       => (result' = Some(<<"<img src=\"data:image/png;base64,QUJD\" />\n">>))

\* C8: a display_data output whose data holds image/png = payload and no
\* text/html appends exactly the img element around the payload followed by
\* a newline, and the document of one code cell with one such output of
\* payload "QUJD" returns the one-element sequence of that element.
C8_ImageFragment == [][C8_Step]_vars

C8_Witness ==
    /\ pc = "returned"
    /\ Nb.cells = C8_Scenario
    /\ result = Some(<<"<img src=\"data:image/png;base64,QUJD\" />\n">>)

\* C9: the calls that returned on one path all returned the same sequence,
\* whatever calls ran between them, and every call starts from an empty
\* accumulator.
C9_Deterministic ==
    /\ \A i, j \in DOMAIN log :
          log[i].path = log[j].path => log[i].result = log[j].result
    /\ pc = "open" => outputs = <<>>

C9_Witness ==
    /\ Len(log) = 3
    /\ log[1].path = log[3].path
    /\ log[2].path # log[1].path
    /\ log[1].result # <<>>

\* The outputs of code cells, and those the iteration has visited so far.
RECURSIVE CodeOutputs(_)
CodeOutputs(cells) ==
    IF cells = <<>> THEN 0
    ELSE (IF Head(cells).cell_type = "code" /\ "outputs" \in DOMAIN Head(cells)
          THEN Len(Head(cells).outputs) ELSE 0)
         + CodeOutputs(Tail(cells))

Visited ==
    CodeOutputs(SubSeq(Nb.cells, 1, ci - 1)) + (IF pc = "outputs" THEN oi - 1 ELSE 0)

C10_Step ==
    pc \in {"parse", "cells", "outputs"} =>
         /\ IsPrefix(outputs, outputs')
         /\ Len(outputs') <= Len(outputs) + 1
         /\ (pc' \in {"cells", "outputs", "returned"} => Len(outputs') <= Visited')
         /\ (pc' = "returned" => Len(result'[1]) <= CodeOutputs(Nb.cells))
         /\ ((pc' = "returned" /\ Nb.cells = <<>>) => result' = Some(<<>>))

\* C10: during the iteration the accumulator only grows at its end, by at
\* most one fragment per step, and is never longer than the number of
\* outputs of code cells visited so far; so the sequence returned is no
\* longer than the number of outputs in code cells, and the document with
\* no cells returns the empty sequence.
C10_AppendOnlyBounded == [][C10_Step]_vars

C10_Witness ==
    /\ pc = "returned"
    /\ CodeOutputs(Nb.cells) = 3
    /\ Len(result[1]) = 2

====
